---- MODULE Spec2Model ----
(***************************************************************************)
(* Model of src/feed.rs: the streaming XML-to-feed parser (parse,          *)
(* RSS::from_xml, Item::from_xml, Option<String>::from_xml, skip_element,  *)
(* parse_atom_link) and the URL normalizer (fix_relative_url).             *)
(*                                                                         *)
(* The parser is a recursive descent over one forward-only event stream.   *)
(* Its call stack is explicit here: one frame per active function call,    *)
(* one step per loop iteration (one read_event and the match arm taken).   *)
(* Text is a sequence of one-character strings; Option<T> is a sequence of *)
(* length 0 (None) or 1 (Some).                                            *)
(*                                                                         *)
(* fetch_feed is the transfer session.perform drives (req: its body-write  *)
(* callbacks appending to buf) followed by the and_then closure, whose     *)
(* outcome is fetched.                                                     *)
(***************************************************************************)
EXTENDS Integers, Sequences, FiniteSets, TLC

VARIABLES stream, pos, stack, result, rss_link, fixed, buf, req, fetched

vars == <<stream, pos, stack, result, rss_link, fixed, buf, req, fetched>>

(***************************************************************************)
(* Values                                                                  *)
(***************************************************************************)
None == <<>>

Some(x) == <<x>>

IsSome(o) == o # <<>>

Unwrap(o) == o[1]

RSSDefault == [title |-> <<>>, link |-> <<>>, items |-> <<>>]

ItemDefault == [title |-> None, link |-> None, id |-> None]

(***************************************************************************)
(* Events of the XML event source.  "Other" stands for the event kinds no  *)
(* match arm names (Comment, Decl, PI, DocType).  A Text event whose ok    *)
(* field is FALSE is one whose content fails to unescape.                  *)
(***************************************************************************)
Ev(t, n, a, x, k) == [type |-> t, name |-> n, attrs |-> a, text |-> x, ok |-> k]

StartEv(n, a) == Ev("Start", n, a, <<>>, TRUE)

EmptyEv(n, a) == Ev("Empty", n, a, <<>>, TRUE)

EndEv == Ev("End", "", <<>>, <<>>, TRUE)

TextEv(x) == Ev("Text", "", <<>>, x, TRUE)

BadTextEv == Ev("Text", "", <<>>, <<>>, FALSE)

CDataEv(x) == Ev("CData", "", <<>>, x, TRUE)

OtherEv == Ev("Other", "", <<>>, <<>>, TRUE)

EofEv == Ev("Eof", "", <<>>, <<>>, TRUE)

ErrEv == Ev("Err", "", <<>>, <<>>, FALSE)

\* One item of the attribute iterator: Err, or Ok with a key, a raw value and
\* whether the value unescapes.
Attr(k, v) == [res |-> "Ok", key |-> k, value |-> v, esc |-> TRUE]

BadEscAttr(k) == [res |-> "Ok", key |-> k, value |-> <<>>, esc |-> FALSE]

ErrAttr == [res |-> "Err", key |-> "", value |-> <<>>, esc |-> FALSE]

Alternate == <<"a", "l", "t", "e", "r", "n", "a", "t", "e">>

\* reader.read_event: the p+1-th event, Eof for ever once the input is used up.
read_event(s, p) == IF p < Len(s) THEN s[p + 1] ELSE EofEv

(***************************************************************************)
(* parse_atom_link                                                         *)
(***************************************************************************)
RECURSIVE atom_link_loop(_, _, _, _)
atom_link_loop(attributes, i, link_tmp, is_alternate) ==
  IF i > Len(attributes)
  THEN IF is_alternate THEN link_tmp ELSE None
  ELSE LET a == attributes[i] IN
       CASE a.res = "Err" -> atom_link_loop(attributes, i + 1, link_tmp, is_alternate)
         [] a.res = "Ok" /\ a.key = "href" ->
              IF a.esc
              THEN atom_link_loop(attributes, i + 1, Some(a.value), is_alternate)
              ELSE atom_link_loop(attributes, i + 1, link_tmp, is_alternate)
         [] a.res = "Ok" /\ a.key = "rel" ->
              atom_link_loop(attributes, i + 1, link_tmp, a.value = Alternate)
         [] OTHER -> atom_link_loop(attributes, i + 1, link_tmp, is_alternate)

\* parse_atom_link without the rel test.
parse_atom_link_any_rel(attributes) ==
  LET NoRel(a) == ~(a.res = "Ok" /\ a.key = "rel")
  IN  atom_link_loop(SelectSeq(attributes, NoRel), 1, None, TRUE)

\* parse_atom_link testing rel when it meets href, not after the loop.
RECURSIVE atom_link_loop_rel_first(_, _, _, _)
atom_link_loop_rel_first(attributes, i, link_tmp, is_alternate) ==
  IF i > Len(attributes)
  THEN link_tmp
  ELSE LET a == attributes[i] IN
       CASE a.res = "Err" -> atom_link_loop_rel_first(attributes, i + 1, link_tmp, is_alternate)
         [] a.res = "Ok" /\ a.key = "href" ->
              IF a.esc /\ is_alternate
              THEN atom_link_loop_rel_first(attributes, i + 1, Some(a.value), is_alternate)
              ELSE atom_link_loop_rel_first(attributes, i + 1, link_tmp, is_alternate)
         [] a.res = "Ok" /\ a.key = "rel" ->
              atom_link_loop_rel_first(attributes, i + 1, link_tmp, a.value = Alternate)
         [] OTHER -> atom_link_loop_rel_first(attributes, i + 1, link_tmp, is_alternate)

parse_atom_link_rel_first(attributes) == atom_link_loop_rel_first(attributes, 1, None, TRUE)

\* parse_atom_link leaving the loop at the first attribute that fails.
parse_atom_link_break(attributes) ==
  LET bad == {i \in 1..Len(attributes) :
                \/ attributes[i].res = "Err"
                \/ attributes[i].key = "href" /\ ~attributes[i].esc}
      n == IF bad = {} THEN Len(attributes)
           ELSE (CHOOSE i \in bad : \A j \in bad : i <= j) - 1
  IN  atom_link_loop(SubSeq(attributes, 1, n), 1, None, TRUE)

parse_atom_link(attributes) == atom_link_loop(attributes, 1, None, TRUE)

(***************************************************************************)
(* The call stack.  A frame is one active call: fn is the function, ctx    *)
(* the match arm of the caller that made the call (what the caller does    *)
(* with the value returned), attrs the attributes of the start tag the     *)
(* caller still holds, and rss / item / content the callee's local.        *)
(***************************************************************************)
Frame(f, x, a) ==
  [fn |-> f, ctx |-> x, attrs |-> a,
   rss |-> RSSDefault, item |-> ItemDefault, content |-> None]

Cfg(p, st, r) == [pos |-> p, stack |-> st, result |-> r]

Running == [kind |-> "Running", rss |-> RSSDefault, err |-> ""]

OkResult(r) == [kind |-> "Ok", rss |-> r, err |-> ""]

ErrResult(e) == [kind |-> "Err", rss |-> RSSDefault, err |-> e]

Top(c) == c.stack[Len(c.stack)]

Pop(st) == SubSeq(st, 1, Len(st) - 1)

SetTop(c, fr) == [c EXCEPT !.stack = Append(Pop(c.stack), fr)]

Call(c, f, x, a) == [c EXCEPT !.stack = Append(c.stack, Frame(f, x, a))]

\* `?` and `return Err(..)`: every enclosing call returns the error at once.
Fail(c, e) == [c EXCEPT !.stack = <<>>, !.result = ErrResult(e)]

(***************************************************************************)
(* What a caller does with the value a call returns.  g is the caller's    *)
(* frame, f the frame of the call that returned Ok.                        *)
(***************************************************************************)
\* RSS::from_xml assigning the title without `if let Some`: a title element
\* without text resets the title.
RSS_resume_title_reset(g, f) ==
  CASE f.ctx = "channel" ->
         [g EXCEPT !.rss.title = f.rss.title, !.rss.link = f.rss.link]
    [] f.ctx = "title" ->
         [g EXCEPT !.rss.title = IF IsSome(f.content) THEN Unwrap(f.content) ELSE <<>>]
    [] f.ctx = "link" ->
         IF IsSome(f.content)
         THEN [g EXCEPT !.rss.link = Unwrap(f.content)]
         ELSE IF IsSome(parse_atom_link(f.attrs))
              THEN [g EXCEPT !.rss.link = Unwrap(parse_atom_link(f.attrs))]
              ELSE g
    [] f.ctx = "item" -> [g EXCEPT !.rss.items = Append(@, f.item)]
    [] OTHER -> g

\* RSS::from_xml pushing an item only if no equal item is in the list yet.
RSS_resume_dedup(g, f) ==
  CASE f.ctx = "channel" ->
         [g EXCEPT !.rss.title = f.rss.title, !.rss.link = f.rss.link]
    [] f.ctx = "title" ->
         IF IsSome(f.content) THEN [g EXCEPT !.rss.title = Unwrap(f.content)] ELSE g
    [] f.ctx = "link" ->
         IF IsSome(f.content)
         THEN [g EXCEPT !.rss.link = Unwrap(f.content)]
         ELSE IF IsSome(parse_atom_link(f.attrs))
              THEN [g EXCEPT !.rss.link = Unwrap(parse_atom_link(f.attrs))]
              ELSE g
    [] f.ctx = "item" ->
         IF \E i \in 1..Len(g.rss.items) : g.rss.items[i] = f.item
         THEN g
         ELSE [g EXCEPT !.rss.items = Append(@, f.item)]
    [] OTHER -> g

\* RSS::from_xml taking the items of a nested channel as well.
RSS_resume_adopt_items(g, f) ==
  CASE f.ctx = "channel" ->
         [g EXCEPT !.rss.title = f.rss.title, !.rss.link = f.rss.link,
                   !.rss.items = @ \o f.rss.items]
    [] f.ctx = "title" ->
         IF IsSome(f.content) THEN [g EXCEPT !.rss.title = Unwrap(f.content)] ELSE g
    [] f.ctx = "link" ->
         IF IsSome(f.content)
         THEN [g EXCEPT !.rss.link = Unwrap(f.content)]
         ELSE IF IsSome(parse_atom_link(f.attrs))
              THEN [g EXCEPT !.rss.link = Unwrap(parse_atom_link(f.attrs))]
              ELSE g
    [] f.ctx = "item" -> [g EXCEPT !.rss.items = Append(@, f.item)]
    [] OTHER -> g

RSS_resume(g, f) ==
  CASE f.ctx = "channel" ->
         [g EXCEPT !.rss.title = f.rss.title, !.rss.link = f.rss.link]
    [] f.ctx = "title" ->
         IF IsSome(f.content) THEN [g EXCEPT !.rss.title = Unwrap(f.content)] ELSE g
    [] f.ctx = "link" ->
         IF IsSome(f.content)
         THEN [g EXCEPT !.rss.link = Unwrap(f.content)]
         ELSE IF IsSome(parse_atom_link(f.attrs))
              THEN [g EXCEPT !.rss.link = Unwrap(parse_atom_link(f.attrs))]
              ELSE g
    [] f.ctx = "item" -> [g EXCEPT !.rss.items = Append(@, f.item)]
    [] OTHER -> g

Item_resume(g, f) ==
  CASE f.ctx = "title" -> [g EXCEPT !.item.title = f.content]
    [] f.ctx = "link" ->
         IF IsSome(f.content)
         THEN [g EXCEPT !.item.link = Some(Unwrap(f.content))]
         ELSE IF IsSome(parse_atom_link(f.attrs))
              THEN [g EXCEPT !.item.link = Some(Unwrap(parse_atom_link(f.attrs)))]
              ELSE g
    [] f.ctx = "id" -> [g EXCEPT !.item.id = f.content]
    [] OTHER -> g

Resume(g, f) ==
  CASE g.fn = "RSS" -> RSS_resume(g, f)
    [] g.fn = "Item" -> Item_resume(g, f)
    [] OTHER -> g

\* `break` followed by Ok(..): the top call returns to its caller; the call
\* parse made to RSS::from_xml returns from parse itself.
Return(c) ==
  LET f == Top(c)
      st == Pop(c.stack)
  IN  IF f.ctx = "root"
      THEN [c EXCEPT !.stack = <<>>, !.result = OkResult(f.rss)]
      ELSE [c EXCEPT !.stack = Append(Pop(st), Resume(st[Len(st)], f))]

(***************************************************************************)
(* One loop iteration of each function: read one event, take its arm.      *)
(***************************************************************************)
Advance(c) == [c EXCEPT !.pos = @ + 1]

\* skip_element without the recursive call: a nested opening tag is passed over
\* like text, so the first closing tag met ends the skip.
skip_element_flat(s, c) ==
  LET e == read_event(s, c.pos)
      c1 == Advance(c)
  IN  CASE e.type \in {"End", "Eof"} -> Return(c1)
        [] e.type = "Err" -> Fail(c1, "Xml")
        [] OTHER -> c1

\* skip_element with the Err arm merged into the break arm.
skip_element_swallow(s, c) ==
  LET e == read_event(s, c.pos)
      c1 == Advance(c)
  IN  CASE e.type = "Start" -> Call(c1, "skip", "skip", <<>>)
        [] e.type \in {"End", "Eof", "Err"} -> Return(c1)
        [] OTHER -> c1

\* skip_element without the Eof alternative of the break arm.
skip_element_ignore_eof(s, c) ==
  LET e == read_event(s, c.pos)
      c1 == Advance(c)
  IN  CASE e.type = "Start" -> Call(c1, "skip", "skip", <<>>)
        [] e.type = "End" -> Return(c1)
        [] e.type = "Err" -> Fail(c1, "Xml")
        [] OTHER -> c1

\* skip_element counting a self-closing tag as an opening tag.
skip_element_empty_opens(s, c) ==
  LET e == read_event(s, c.pos)
      c1 == Advance(c)
  IN  CASE e.type \in {"Start", "Empty"} -> Call(c1, "skip", "skip", <<>>)
        [] e.type \in {"End", "Eof"} -> Return(c1)
        [] e.type = "Err" -> Fail(c1, "Xml")
        [] OTHER -> c1

skip_element(s, c) ==
  LET e == read_event(s, c.pos)
      c1 == Advance(c)
  IN  CASE e.type = "Start" -> Call(c1, "skip", "skip", <<>>)
        [] e.type \in {"End", "Eof"} -> Return(c1)
        [] e.type = "Err" -> Fail(c1, "Xml")
        [] OTHER -> c1

\* Option::from_xml keeping the first text it meets.
Option_from_xml_first_wins(s, c) ==
  LET e == read_event(s, c.pos)
      c1 == Advance(c)
      keep(x) == IF IsSome(Top(c1).content) THEN c1
                 ELSE SetTop(c1, [Top(c1) EXCEPT !.content = Some(x)])
  IN  CASE e.type = "Start" -> Call(c1, "skip", "skip", <<>>)
        [] e.type = "Text" -> IF e.ok THEN keep(e.text) ELSE Fail(c1, "Xml")
        [] e.type = "CData" -> keep(e.text)
        [] e.type \in {"End", "Eof"} -> Return(c1)
        [] e.type = "Err" -> Fail(c1, "Xml")
        [] OTHER -> c1

Option_from_xml(s, c) ==
  LET e == read_event(s, c.pos)
      c1 == Advance(c)
  IN  CASE e.type = "Start" -> Call(c1, "skip", "skip", <<>>)
        [] e.type = "Text" ->
             IF e.ok
             THEN SetTop(c1, [Top(c1) EXCEPT !.content = Some(e.text)])
             ELSE Fail(c1, "Xml")
        [] e.type = "CData" -> SetTop(c1, [Top(c1) EXCEPT !.content = Some(e.text)])
        [] e.type \in {"End", "Eof"} -> Return(c1)
        [] e.type = "Err" -> Fail(c1, "Xml")
        [] OTHER -> c1

RSS_from_xml(s, c) ==
  LET e == read_event(s, c.pos)
      c1 == Advance(c)
  IN  CASE e.type = "Empty" ->
             IF e.name = "link" /\ IsSome(parse_atom_link(e.attrs))
             THEN SetTop(c1, [Top(c1) EXCEPT !.rss.link = Unwrap(parse_atom_link(e.attrs))])
             ELSE c1
        [] e.type = "Start" ->
             CASE e.name = "channel" -> Call(c1, "RSS", "channel", <<>>)
               [] e.name = "title" -> Call(c1, "Option", "title", <<>>)
               [] e.name = "link" -> Call(c1, "Option", "link", e.attrs)
               [] e.name \in {"item", "entry"} -> Call(c1, "Item", "item", <<>>)
               [] OTHER -> Call(c1, "skip", "skip", <<>>)
        [] e.type \in {"End", "Eof"} -> Return(c1)
        [] e.type = "Err" -> Fail(c1, "Xml")
        [] OTHER -> c1

Item_from_xml(s, c) ==
  LET e == read_event(s, c.pos)
      c1 == Advance(c)
  IN  CASE e.type = "Empty" ->
             IF e.name = "link" /\ IsSome(parse_atom_link(e.attrs))
             THEN SetTop(c1, [Top(c1) EXCEPT !.item.link = Some(Unwrap(parse_atom_link(e.attrs)))])
             ELSE c1
        [] e.type = "Start" ->
             CASE e.name = "title" -> Call(c1, "Option", "title", <<>>)
               [] e.name = "link" -> Call(c1, "Option", "link", e.attrs)
               [] e.name \in {"id", "guid"} -> Call(c1, "Option", "id", <<>>)
               [] OTHER -> Call(c1, "skip", "skip", <<>>)
        [] e.type \in {"End", "Eof"} -> Return(c1)
        [] e.type = "Err" -> Fail(c1, "Xml")
        [] OTHER -> c1

\* parse without the rdf:RDF arm.
parse_no_rdf(s, c) ==
  LET e == read_event(s, c.pos)
      c1 == Advance(c)
  IN  CASE e.type = "Start" ->
             CASE e.name = "rss" -> c1
               [] e.name \in {"channel", "feed"} -> Call(c1, "RSS", "root", <<>>)
               [] OTHER -> Call(c1, "skip", "skip", <<>>)
        [] e.type = "Eof" -> Fail(c1, "EOF")
        [] e.type = "Err" -> Fail(c1, "Xml")
        [] OTHER -> c1

\* parse without the `"rss" => continue` arm: the wrapper is skipped whole.
parse_skip_rss(s, c) ==
  LET e == read_event(s, c.pos)
      c1 == Advance(c)
  IN  CASE e.type = "Start" ->
             CASE e.name \in {"channel", "feed", "rdf:RDF"} -> Call(c1, "RSS", "root", <<>>)
               [] OTHER -> Call(c1, "skip", "skip", <<>>)
        [] e.type = "Eof" -> Fail(c1, "EOF")
        [] e.type = "Err" -> Fail(c1, "Xml")
        [] OTHER -> c1

parse(s, c) ==
  LET e == read_event(s, c.pos)
      c1 == Advance(c)
  IN  CASE e.type = "Start" ->
             CASE e.name = "rss" -> c1
               [] e.name \in {"channel", "feed", "rdf:RDF"} -> Call(c1, "RSS", "root", <<>>)
               [] OTHER -> Call(c1, "skip", "skip", <<>>)
        [] e.type = "Eof" -> Fail(c1, "EOF")
        [] e.type = "Err" -> Fail(c1, "Xml")
        [] OTHER -> c1

\* The step of whichever call is on top of the stack.
Step(s, c) ==
  CASE Top(c).fn = "parse" -> parse(s, c)
    [] Top(c).fn = "RSS" -> RSS_from_xml(s, c)
    [] Top(c).fn = "Item" -> Item_from_xml(s, c)
    [] Top(c).fn = "Option" -> Option_from_xml(s, c)
    [] Top(c).fn = "skip" -> skip_element(s, c)

\* parse(reader) run to its return.
RECURSIVE Run(_, _)
Run(s, c) == IF c.stack = <<>> THEN c ELSE Run(s, Step(s, c))

Start(s) == Cfg(0, <<Frame("parse", "main", <<>>)>>, Running)

Parse(s) == Run(s, Start(s)).result

(***************************************************************************)
(* The URL normalizer                                                      *)
(***************************************************************************)
starts_with(str, prefix) ==
  Len(str) >= Len(prefix) /\ SubSeq(str, 1, Len(prefix)) = prefix

Http == <<"h", "t", "t", "p", ":">>

\* The number of characters other than "/" from index from + 1 on: [^/]* there.
RECURSIVE NonSlashRun(_, _)
NonSlashRun(u, from) ==
  IF from < Len(u) /\ u[from + 1] # "/" THEN 1 + NonSlashRun(u, from + 1) ELSE 0

\* The length of the prefix `https?://` matches, or 0.
SchemeLen(u) ==
  IF starts_with(u, Http \o <<"/", "/">>) THEN 7
  ELSE IF starts_with(u, <<"h", "t", "t", "p", "s", ":", "/", "/">>) THEN 8
  ELSE 0

\* HOST without the scheme group: ^([^/]+).
HOST_captures_no_scheme(u) ==
  IF NonSlashRun(u, 0) > 0 THEN Some(SubSeq(u, 1, NonSlashRun(u, 0))) ELSE None

\* HOST.captures(u), group 0: ^((?:https?://)?[^/]+), the scheme taken when a
\* host follows it and given up otherwise.
HOST_captures(u) ==
  IF SchemeLen(u) > 0 /\ NonSlashRun(u, SchemeLen(u)) > 0
  THEN Some(SubSeq(u, 1, SchemeLen(u) + NonSlashRun(u, SchemeLen(u))))
  ELSE IF NonSlashRun(u, 0) > 0
       THEN Some(SubSeq(u, 1, NonSlashRun(u, 0)))
       ELSE None

\* set_url_relative_to_absolute with its two guards in the other order.
set_url_slash_first(link, host) ==
  IF starts_with(link, <<"/">>) THEN host \o link
  ELSE IF starts_with(link, <<"/", "/">>) THEN Http \o link
  ELSE link

\* set_url_relative_to_absolute without the "//" arm.
set_url_no_http(link, host) ==
  IF starts_with(link, <<"/">>) /\ ~starts_with(link, <<"/", "/">>) THEN host \o link
  ELSE link

\* set_url_relative_to_absolute with the host arm as the catch-all arm.
set_url_host_always(link, host) ==
  IF starts_with(link, <<"/", "/">>) THEN Http \o link
  ELSE host \o link

set_url_relative_to_absolute(link, host) ==
  IF starts_with(link, <<"/", "/">>) THEN Http \o link
  ELSE IF starts_with(link, <<"/">>) THEN host \o link
  ELSE link

rss_host(link) == IF IsSome(HOST_captures(link)) THEN Unwrap(HOST_captures(link)) ELSE link

\* fix_relative_url without the `"" | "/"` arm.
fix_relative_url_no_fallback(rss, link) ==
  [rss EXCEPT
     !.link = set_url_relative_to_absolute(@, rss_host(link)),
     !.items = [i \in 1..Len(@) |->
                  IF IsSome(@[i].link)
                  THEN [@[i] EXCEPT !.link =
                          Some(set_url_relative_to_absolute(Unwrap(@), rss_host(link)))]
                  ELSE @[i]]]

fix_relative_url(rss, link) ==
  [rss EXCEPT
     !.link = IF @ \in {<<>>, <<"/">>}
              THEN rss_host(link)
              ELSE set_url_relative_to_absolute(@, rss_host(link)),
     !.items = [i \in 1..Len(@) |->
                  IF IsSome(@[i].link)
                  THEN [@[i] EXCEPT !.link =
                          Some(set_url_relative_to_absolute(Unwrap(@), rss_host(link)))]
                  ELSE @[i]]]

(***************************************************************************)
(* Inputs.  A document is the event stream the tokenizer produces for it:  *)
(* an element is its Start event, its children's events and its End event. *)
(***************************************************************************)
MaxKids == 3

MaxItemKids == 2

MaxLen == 4

Elem(n, a, body) == <<StartEv(n, a)>> \o body \o <<EndEv>>

\* Every concatenation of at most n members of F.
RECURSIVE Cat(_, _)
Cat(F, n) ==
  IF n = 0 THEN {<<>>}
  ELSE LET shorter == Cat(F, n - 1) IN
       shorter \cup {x \o f : x \in shorter, f \in F}

TA == <<"a">>

TB == <<"b">>

TC == <<"c">>

H1 == <<"/", "h">>

H2 == <<"/", "/", "s">>

L1 == <<"l">>

RelSelf == <<"s", "e", "l", "f">>

Unknown == Elem("foo", <<>>, Elem("bar", <<>>, <<EmptyEv("baz", <<>>)>>) \o <<TextEv(TA)>>)

UnknownFull ==
  Elem("foo", <<>>, Elem("title", <<>>, <<TextEv(TC)>>) \o Elem("item", <<>>, <<>>)
                    \o <<EmptyEv("link", <<Attr("href", H2)>>)>>)

TitleKids ==
  { Elem("title", <<>>, <<TextEv(TA)>>),
    Elem("title", <<>>, <<CDataEv(TB)>>),
    Elem("title", <<>>, <<>>),
    Elem("title", <<>>, <<TextEv(TA), EmptyEv("br", <<>>), TextEv(TB)>>),
    Elem("title", <<>>, Elem("b", <<>>, <<TextEv(TC)>>)) }

LinkKids ==
  { Elem("link", <<>>, <<TextEv(L1)>>),
    Elem("link", <<Attr("href", H1)>>, <<>>),
    Elem("link", <<Attr("rel", RelSelf), Attr("href", H2)>>, <<>>),
    Elem("link", <<Attr("rel", RelSelf), Attr("href", H2)>>, <<TextEv(L1)>>),
    <<EmptyEv("link", <<Attr("rel", Alternate), Attr("href", H1)>>)>>,
    <<EmptyEv("link", <<Attr("href", H1)>>)>>,
    <<EmptyEv("link", <<Attr("href", H2), Attr("rel", RelSelf)>>)>> }

IdKids ==
  { Elem("id", <<>>, <<TextEv(TA)>>),
    Elem("guid", <<>>, <<CDataEv(TB)>>),
    Elem("id", <<>>, <<>>) }

ItemBodies ==
  Cat(TitleKids \cup {Unknown}, MaxItemKids)
    \cup Cat(LinkKids \cup {Unknown}, MaxItemKids)
    \cup Cat(IdKids \cup {UnknownFull, <<OtherEv>>, <<EmptyEv("foo", <<>>)>>}, MaxItemKids)

FewItems ==
  { Elem("item", <<>>, <<>>),
    Elem("entry", <<>>, Elem("title", <<>>, <<TextEv(TA)>>)),
    Elem("item", <<>>, Elem("title", <<>>, <<TextEv(TB)>>)
                        \o <<EmptyEv("link", <<Attr("href", H1)>>)>>) }

NestedChannels ==
  { Elem("channel", <<>>, Elem("title", <<>>, <<TextEv(TC)>>)
                           \o Elem("link", <<>>, <<TextEv(L1)>>)),
    Elem("channel", <<>>, Elem("item", <<>>, <<>>)) }

RootBodies ==
  Cat(TitleKids \cup {Unknown, Elem("item", <<>>, <<>>)}, MaxKids)
    \cup Cat(LinkKids \cup {UnknownFull}, MaxKids)
    \cup Cat(FewItems \cup NestedChannels \cup {Unknown, <<EmptyEv("item", <<>>)>>}, MaxKids)
    \cup {Elem("title", <<>>, <<TextEv(TA)>>) \o Elem("item", <<>>, b) : b \in ItemBodies}

DocStreams ==
  {Elem(r, <<>>, b) : r \in {"channel", "feed", "rdf:RDF"}, b \in RootBodies}
    \cup {Elem("rss", <<>>, Elem("channel", <<>>, b)) : b \in RootBodies}

RawEvents ==
  { StartEv("rss", <<>>), StartEv("channel", <<>>), StartEv("feed", <<>>),
    StartEv("rdf:RDF", <<>>), StartEv("foo", <<>>), StartEv("title", <<>>),
    StartEv("item", <<>>), EndEv, TextEv(TA), BadTextEv, ErrEv }

RawStreams == UNION {[1..n -> RawEvents] : n \in 0..MaxLen}

\* Inputs of the normalizer: links and source URLs over a slash and a letter.
MaxLinkLen == 3

MaxUrlTail == 2

Strs(A, n) == UNION {[1..k -> A] : k \in 0..n}

Links == Strs({"/", "a"}, MaxLinkLen) \cup {Http \o <<"/", "/", "b", "/", "y">>}

Schemes ==
  { <<>>, Http \o <<"/", "/">>, <<"h", "t", "t", "p", "s", ":", "/", "/">>,
    <<"f", "t", "p", ":", "/", "/">> }

Urls == {sc \o tail : sc \in Schemes, tail \in Strs({"/", "a"}, MaxUrlTail)}

UrlItems == [title : {None}, link : {None} \cup {Some(l) : l \in Links}, id : {Some(TB)}]

UrlItemLists ==
  {<<>>} \cup {<<i>> : i \in UrlItems}
    \cup {<<i, j>> : i \in UrlItems,
                     j \in {[title |-> Some(TA), link |-> Some(<<"/", "a">>), id |-> None],
                            [title |-> Some(TA), link |-> None, id |-> None]}}

UrlFeeds == [title : {TA}, link : Links, items : UrlItemLists]

(***************************************************************************)
(* The state machine                                                       *)
(***************************************************************************)
\* The request: the body and response code the server sends, how much of the
\* body the write callbacks have received, and where the transfer stands.
Request(st, body, code, sent) == [state |-> st, body |-> body, code |-> code, sent |-> sent]

HttpOk == 200

\* fetch_feed has not resolved yet.
Pending == [kind |-> "Pending", code |-> 0, rss |-> RSSDefault]

\* parse called on a buffer that is already complete.
NoTransfer ==
  /\ buf = stream
  /\ req = Request("done", stream, HttpOk, Len(stream))
  /\ fetched = Pending

InitCall ==
  /\ pos = 0
  /\ stack = <<Frame("parse", "main", <<>>)>>
  /\ result = Running
  /\ rss_link = <<>>
  /\ fixed = None
  /\ NoTransfer

InitDoc == stream \in DocStreams /\ InitCall

InitRaw == stream \in RawStreams /\ InitCall

\* fetch_feed after parse returned Ok(rss): any Feed, any source URL.
InitUrl ==
  /\ stream = <<>>
  /\ pos = 0
  /\ stack = <<>>
  /\ result \in {OkResult(f) : f \in UrlFeeds}
  /\ rss_link \in Urls
  /\ fixed = None
  /\ NoTransfer

Now == Cfg(pos, stack, result)

Becomes(c) ==
  /\ pos' = c.pos
  /\ stack' = c.stack
  /\ result' = c.result
  /\ UNCHANGED <<stream, rss_link, fixed, buf, req, fetched>>

Active(f) == stack # <<>> /\ stack[Len(stack)].fn = f

ParseLoop == Active("parse") /\ Becomes(parse(stream, Now))

RssLoop == Active("RSS") /\ Becomes(RSS_from_xml(stream, Now))

ItemLoop == Active("Item") /\ Becomes(Item_from_xml(stream, Now))

OptionLoop == Active("Option") /\ Becomes(Option_from_xml(stream, Now))

SkipLoop == Active("skip") /\ Becomes(skip_element(stream, Now))

NextParse == ParseLoop \/ RssLoop \/ ItemLoop \/ OptionLoop \/ SkipLoop

SpecDoc == InitDoc /\ [][NextParse]_vars

SpecRaw == InitRaw /\ [][NextParse]_vars

\* fetch_feed: Ok(fix_relative_url(rss, &link)).
Normalize ==
  /\ stack = <<>>
  /\ result.kind = "Ok"
  /\ fixed = None
  /\ fixed' = Some(fix_relative_url(result.rss, rss_link))
  /\ UNCHANGED <<stream, pos, stack, result, rss_link, buf, req, fetched>>

NextUrl == Normalize

SpecUrl == InitUrl /\ [][NextUrl]_vars

(***************************************************************************)
(* fetch_feed.  The body is the event stream its bytes tokenize to, and a  *)
(* write callback receives a chunk of at most MaxChunk events.  The future *)
(* session.perform returns resolves to the response once the transfer is   *)
(* over, or to an error at any moment of it.                               *)
(***************************************************************************)
MaxChunk == 2

Codes == {HttpOk, 204, 404, 500}

FetchOk(rss) == [kind |-> "Ok", code |-> 0, rss |-> rss]

HttpErr(code) == [kind |-> "Http", code |-> code, rss |-> RSSDefault]

TransportErr == [kind |-> "Transport", code |-> 0, rss |-> RSSDefault]

ParseErr == [kind |-> "Parse", code |-> 0, rss |-> RSSDefault]

FetchBodies ==
  { <<>>,
    Elem("channel", <<>>, Elem("title", <<>>, <<TextEv(TA)>>) \o Elem("link", <<>>, <<TextEv(<<"/">>)>>)),
    Elem("rss", <<>>, Elem("channel", <<>>, Elem("item", <<>>, Elem("link", <<>>, <<TextEv(H1)>>)))),
    Elem("feed", <<>>, <<EmptyEv("link", <<Attr("href", H2)>>)>> \o Elem("entry", <<>>, <<>>)),
    Elem("html", <<>>, Elem("title", <<>>, <<TextEv(TB)>>)),
    <<StartEv("feed", <<>>), StartEv("title", <<>>), BadTextEv, EndEv, EndEv>>,
    <<StartEv("feed", <<>>), StartEv("entry", <<>>), EndEv, ErrEv>> }

FetchUrls ==
  { Http \o <<"/", "/", "a">>, <<"h", "t", "t", "p", "s", ":", "/", "/", "a", "/", "a">>, <<"a", "/">> }

\* fetch_feed up to session.perform(req): nothing received, nothing parsed.
InitFetch ==
  /\ stream = <<>>
  /\ pos = 0
  /\ stack = <<>>
  /\ result = Running
  /\ rss_link \in FetchUrls
  /\ fixed = None
  /\ buf = <<>>
  /\ req \in {Request("performing", b, c, 0) : b \in FetchBodies, c \in Codes}
  /\ fetched = Pending

\* The write_function closure: the next chunk of the body is appended to buf.
WriteFunction ==
  /\ req.state = "performing"
  /\ \E n \in 1..MaxChunk :
       /\ req.sent + n <= Len(req.body)
       /\ buf' = buf \o SubSeq(req.body, req.sent + 1, req.sent + n)
       /\ req' = [req EXCEPT !.sent = @ + n]
  /\ UNCHANGED <<stream, pos, stack, result, rss_link, fixed, fetched>>

\* session.perform(req) resolves to the response: the whole body was written.
PerformOk ==
  /\ req.state = "performing"
  /\ req.sent = Len(req.body)
  /\ req' = [req EXCEPT !.state = "done"]
  /\ UNCHANGED <<stream, pos, stack, result, rss_link, fixed, buf, fetched>>

\* session.perform(req) resolves to an error, which map_err converts and
\* and_then passes on.
PerformErr ==
  /\ req.state = "performing"
  /\ req' = [req EXCEPT !.state = "failed"]
  /\ fetched' = TransportErr
  /\ UNCHANGED <<stream, pos, stack, result, rss_link, fixed, buf>>

\* The and_then closure without the response code test.
AndThenAnyCode ==
  /\ req.state = "done"
  /\ fetched = Pending
  /\ LET c == Run(buf, Start(buf))
     IN  /\ stream' = buf
         /\ pos' = c.pos
         /\ stack' = c.stack
         /\ result' = c.result
         /\ IF c.result.kind = "Ok"
            THEN /\ fixed' = Some(fix_relative_url(c.result.rss, rss_link))
                 /\ fetched' = FetchOk(fix_relative_url(c.result.rss, rss_link))
            ELSE /\ fixed' = fixed
                 /\ fetched' = ParseErr
  /\ UNCHANGED <<rss_link, buf, req>>

\* The and_then closure, run on the response.
AndThen ==
  /\ req.state = "done"
  /\ fetched = Pending
  /\ IF req.code # HttpOk
     THEN /\ fetched' = HttpErr(req.code)
          /\ UNCHANGED <<stream, pos, stack, result, fixed>>
     ELSE LET c == Run(buf, Start(buf))
          IN  /\ stream' = buf
              /\ pos' = c.pos
              /\ stack' = c.stack
              /\ result' = c.result
              /\ IF c.result.kind = "Ok"
                 THEN /\ fixed' = Some(fix_relative_url(c.result.rss, rss_link))
                      /\ fetched' = FetchOk(fix_relative_url(c.result.rss, rss_link))
                 ELSE /\ fixed' = fixed
                      /\ fetched' = ParseErr
  /\ UNCHANGED <<rss_link, buf, req>>

NextFetch == WriteFunction \/ PerformOk \/ PerformErr \/ AndThen

SpecFetch == InitFetch /\ [][NextFetch]_vars

(***************************************************************************)
(* The structure of a document, read off its event stream by counting      *)
(* depth: the closing tag matching an opening tag, the direct children of  *)
(* an element in document order, the text an element carries.              *)
(***************************************************************************)
Done == result.kind # "Running"

RECURSIVE Match(_, _, _)
Match(s, j, d) ==
  IF j > Len(s) THEN j
  ELSE CASE s[j].type = "Start" -> Match(s, j + 1, d + 1)
         [] s[j].type = "End" -> IF d = 0 THEN j ELSE Match(s, j + 1, d - 1)
         [] OTHER -> Match(s, j + 1, d)

\* The index of the closing tag of the element opened at index i.
MatchEnd(s, i) == Match(s, i + 1, 0)

\* The index after the node (element, empty element, text...) at index k.
NextSibling(s, k) == IF s[k].type = "Start" THEN MatchEnd(s, k) + 1 ELSE k + 1

RECURSIVE KidsFrom(_, _)
KidsFrom(s, k) ==
  IF k > Len(s) \/ s[k].type = "End" THEN <<>>
  ELSE <<k>> \o KidsFrom(s, NextSibling(s, k))

\* The indices of the direct children of the element opened at index i.
Kids(s, i) == KidsFrom(s, i + 1)

\* Those direct children that are opening tags with a name in names.
StartKids(s, i, names) ==
  LET Is(k) == s[k].type = "Start" /\ s[k].name \in names
  IN  SelectSeq(Kids(s, i), Is)

\* Those that are `link` children, opened or self-closing.
LinkKidsOf(s, i) ==
  LET Is(k) == s[k].type \in {"Start", "Empty"} /\ s[k].name = "link"
  IN  SelectSeq(Kids(s, i), Is)

\* The text of the element opened at index i: its last direct text or CDATA.
TextOf(s, i) ==
  LET Is(k) == s[k].type \in {"Text", "CData"}
      texts == SelectSeq(Kids(s, i), Is)
  IN  IF texts = <<>> THEN None ELSE Some(s[texts[Len(texts)]].text)

Range(q) == {q[i] : i \in 1..Len(q)}

Last(q) == q[Len(q)]

\* The index of the root element of a document (inside the rss wrapper, if any).
DocRoot(s) == IF s[1].name = "rss" THEN 2 ELSE 1

ItemNames == {"item", "entry"}

ItemKidsOf(s, i) == StartKids(s, i, ItemNames)

KnownNames ==
  {"rss", "channel", "feed", "rdf:RDF", "title", "link", "item", "entry", "id", "guid"}

\* s without the events i..j.
Remove(s, i, j) == SubSeq(s, 1, i - 1) \o SubSeq(s, j + 1, Len(s))

(***************************************************************************)
(* C1                                                                      *)
(***************************************************************************)
\* The element that carries the feed's title: the root, or in the RDF shape
\* the root's single channel child.
TitleCarrier(s) ==
  LET r == DocRoot(s)
      ch == StartKids(s, r, {"channel"})
  IN  IF ch = <<>> THEN Some(r)
      ELSE IF Len(ch) = 1 /\ StartKids(s, r, {"title"}) = <<>> THEN Some(ch[1])
      ELSE None

\* A document with one item and a non-empty title: the root has exactly one
\* item/entry child, and the title carrier has a title child, each of its title
\* children carrying non-empty text.
OneItemTitled(s) ==
  /\ Len(ItemKidsOf(s, DocRoot(s))) = 1
  /\ IsSome(TitleCarrier(s))
  /\ LET ts == StartKids(s, Unwrap(TitleCarrier(s)), {"title"})
     IN  /\ ts # <<>>
         /\ \A t \in Range(ts) : IsSome(TextOf(s, t)) /\ Unwrap(TextOf(s, t)) # <<>>

\* C1: for each root shape, parsing a document with a non-empty title and one
\* item returns Ok with exactly one item and a title that is not the default.
C1_OneItemOneTitle ==
  (Done /\ OneItemTitled(stream)) =>
    /\ result.kind = "Ok"
    /\ Len(result.rss.items) = 1
    /\ result.rss.title # <<>>

\* An rdf:RDF document whose title sits in the nested channel has been parsed.
C1_Witness ==
  /\ Done
  /\ OneItemTitled(stream)
  /\ stream[1].name = "rdf:RDF"
  /\ StartKids(stream, 1, {"channel"}) # <<>>
  /\ result.kind = "Ok"

(***************************************************************************)
(* C2                                                                      *)
(***************************************************************************)
ErrorFree(s) == \A k \in 1..Len(s) : s[k].type # "Err" /\ s[k].ok

\* The first opening tag named channel, feed or rdf:RDF that lies outside every
\* other element but rss wrappers (d counts the open unknown elements), or 0.
RECURSIVE ScanRoot(_, _, _)
ScanRoot(s, k, d) ==
  IF k > Len(s) THEN 0
  ELSE LET e == s[k] IN
       IF d = 0
       THEN CASE e.type = "Start" /\ e.name \in {"channel", "feed", "rdf:RDF"} -> k
              [] e.type = "Start" /\ e.name # "rss" -> ScanRoot(s, k + 1, 1)
              [] OTHER -> ScanRoot(s, k + 1, 0)
       ELSE CASE e.type = "Start" -> ScanRoot(s, k + 1, d + 1)
              [] e.type = "End" -> ScanRoot(s, k + 1, d - 1)
              [] OTHER -> ScanRoot(s, k + 1, d)

RootAt(s) == ScanRoot(s, 1, 0)

\* RSS::from_xml called by parse right after the opening tag at index r.
FromRoot(s, r) ==
  Run(s, Cfg(r, <<Frame("parse", "main", <<>>), Frame("RSS", "root", <<>>)>>, Running)).result

\* C2: on an error-free stream parse fails with EOF exactly when no recognized
\* root opening tag lies outside the skipped elements, and otherwise returns
\* what RSS::from_xml returns for the first such tag; while that call is active
\* the stream does hold such a tag.
C2_RootDispatch ==
  ErrorFree(stream) =>
    /\ (Len(stack) >= 2 /\ stack[2].fn = "RSS") => RootAt(stream) # 0
    /\ Done =>
         /\ (result = ErrResult("EOF")) <=> (RootAt(stream) = 0)
         /\ result.kind = "Ok" => RootAt(stream) # 0
         /\ RootAt(stream) # 0 => result = FromRoot(stream, RootAt(stream))

\* EOF was returned for a stream that holds a channel tag inside an unknown
\* element.
C2_Witness ==
  /\ Done
  /\ ErrorFree(stream)
  /\ result = ErrResult("EOF")
  /\ \E k \in 2..Len(stream) :
       /\ stream[k] = StartEv("channel", <<>>)
       /\ stream[k - 1] = StartEv("foo", <<>>)

(***************************************************************************)
(* C3                                                                      *)
(***************************************************************************)
\* The bodies an unknown element may be inserted in: the root, and the channel,
\* item and entry children of the root.
BodiesOf(s) ==
  {DocRoot(s)} \cup Range(StartKids(s, DocRoot(s), {"channel"} \cup ItemNames))

\* The unknown children (opened or self-closing) of those bodies.
UnknownKidsOf(s) ==
  {k \in UNION {Range(Kids(s, b)) : b \in BodiesOf(s)} :
     s[k].type \in {"Start", "Empty"} /\ s[k].name \notin KnownNames}

\* C3: the Feed parsed from a document equals the Feed parsed from the document
\* without any one of the unknown subtrees among the children of its bodies.
C3_UnknownSkipped ==
  Done =>
    \A k \in UnknownKidsOf(stream) :
      Parse(Remove(stream, k, NextSibling(stream, k) - 1)) = result

\* A document has been parsed that holds, in an item, an unknown subtree nested
\* two deep before an id, and the id was read.
C3_Witness ==
  /\ Done
  /\ result.kind = "Ok"
  /\ \E k \in UnknownKidsOf(stream) :
       /\ k > DocRoot(stream) + 1
       /\ stream[k].type = "Start"
       /\ stream[k + 1].type = "Start"
       /\ NextSibling(stream, k) <= Len(stream)
       /\ stream[NextSibling(stream, k)].name \in {"id", "guid"}
  /\ Len(result.rss.items) = 1
  /\ IsSome(result.rss.items[1].id)

(***************************************************************************)
(* C4                                                                      *)
(***************************************************************************)
HasAttr(attrs, k) == \E i \in 1..Len(attrs) : attrs[i].res = "Ok" /\ attrs[i].key = k

ValOf(attrs, k) ==
  attrs[CHOOSE i \in 1..Len(attrs) : attrs[i].res = "Ok" /\ attrs[i].key = k].value

\* The href of a link element whose rel is absent or "alternate".
AltHref(attrs) ==
  IF HasAttr(attrs, "href") /\ (HasAttr(attrs, "rel") => ValOf(attrs, "rel") = Alternate)
  THEN Some(ValOf(attrs, "href"))
  ELSE None

\* What the link child at index k sets link to, if anything: its text if it has
\* text, else its href if its rel is absent or "alternate".
LinkSet(s, k) ==
  IF s[k].type = "Start" /\ IsSome(TextOf(s, k)) THEN TextOf(s, k) ELSE AltHref(s[k].attrs)

\* The same, with every link child whose rel is another value setting nothing,
\* text or no text.
LinkSetAnyRel(s, k) ==
  IF HasAttr(s[k].attrs, "rel") /\ ValOf(s[k].attrs, "rel") # Alternate
  THEN None
  ELSE LinkSet(s, k)

\* The link left by the link children ks, each setting what Set gives for it.
LinkAfter(s, ks, Set(_, _)) ==
  LET Sets(k) == IsSome(Set(s, k))
      setters == SelectSeq(ks, Sets)
  IN  IF setters = <<>> THEN None ELSE Set(s, Last(setters))

NoNestedChannel(s) == StartKids(s, DocRoot(s), {"channel"}) = <<>>

LinksAgree(Set(_, _)) ==
  LET s == stream
      r == DocRoot(s)
      items == ItemKidsOf(s, r)
      feedLink == LinkAfter(s, LinkKidsOf(s, r), Set)
  IN  /\ result.kind = "Ok"
      /\ result.rss.link = (IF IsSome(feedLink) THEN Unwrap(feedLink) ELSE <<>>)
      /\ Len(result.rss.items) = Len(items)
      /\ \A j \in 1..Len(items) :
           result.rss.items[j].link = LinkAfter(s, LinkKidsOf(s, items[j]), Set)

\* C4 (as stated): in the Feed and in each Item, link is what the last link
\* child that sets it sets it to: a link child with text sets its text, one
\* with an href and rel absent or "alternate" sets the href, and one whose rel
\* is another value sets nothing.
C4_AsStated == (Done /\ NoNestedChannel(stream)) => LinksAgree(LinkSetAnyRel)

\* C4 (amended): the same, where a link child whose rel is another value sets
\* nothing only if it has no text; with text it sets its text like any other.
C4_LinkEncodings == (Done /\ NoNestedChannel(stream)) => LinksAgree(LinkSet)

\* An item whose only link child is a link with rel="self" was parsed, and its
\* link is absent.
C4_Witness ==
  /\ Done
  /\ result.kind = "Ok"
  /\ LET items == ItemKidsOf(stream, DocRoot(stream))
     IN  /\ Len(items) = 1
         /\ Len(LinkKidsOf(stream, items[1])) = 1
         /\ HasAttr(stream[LinkKidsOf(stream, items[1])[1]].attrs, "rel")
         /\ HasAttr(stream[LinkKidsOf(stream, items[1])[1]].attrs, "href")
         /\ Len(result.rss.items) = 1
         /\ result.rss.items[1].link = None

(***************************************************************************)
(* C5                                                                      *)
(***************************************************************************)
\* The text of the last of the title children ts that has text, if any.
LastTitleWithText(s, ts) ==
  LET Has(k) == IsSome(TextOf(s, k))
      with == SelectSeq(ts, Has)
  IN  IF with = <<>> THEN None ELSE TextOf(s, Last(with))

\* The text of the last of the title children ts, with or without text.
LastTitle(s, ts) == IF ts = <<>> THEN None ELSE TextOf(s, Last(ts))

OrEmpty(o) == IF IsSome(o) THEN Unwrap(o) ELSE <<>>

ItemTitlesAgree ==
  LET s == stream
      items == ItemKidsOf(s, DocRoot(s))
  IN  /\ Len(result.rss.items) = Len(items)
      /\ \A j \in 1..Len(items) :
           result.rss.items[j].title = LastTitle(s, StartKids(s, items[j], {"title"}))

\* C5 (as stated): the title of the Feed and of each Item is the text of its
\* last title child alone, whatever the earlier title children hold.
C5_AsStated ==
  (Done /\ NoNestedChannel(stream)) =>
    /\ result.kind = "Ok"
    /\ result.rss.title =
         OrEmpty(LastTitle(stream, StartKids(stream, DocRoot(stream), {"title"})))
    /\ ItemTitlesAgree

\* C5 (amended): the title of an Item is the text of its last title child alone
\* (absent if that child has no text); the title of the Feed is the text of its
\* last title child that has text, so a title child without text leaves the
\* earlier title in place.
C5_LastTitleWins ==
  (Done /\ NoNestedChannel(stream)) =>
    /\ result.kind = "Ok"
    /\ result.rss.title =
         OrEmpty(LastTitleWithText(stream, StartKids(stream, DocRoot(stream), {"title"})))
    /\ ItemTitlesAgree

\* A feed with three title children with different texts was parsed.
C5_Witness ==
  /\ Done
  /\ result.kind = "Ok"
  /\ NoNestedChannel(stream)
  /\ LET ts == StartKids(stream, DocRoot(stream), {"title"})
     IN  /\ Len(ts) = 3
         /\ TextOf(stream, ts[1]) = Some(TA)
         /\ TextOf(stream, ts[2]) = None
         /\ TextOf(stream, ts[3]) = Some(TB)
  /\ result.rss.title = TB

(***************************************************************************)
(* C6                                                                      *)
(***************************************************************************)
\* The items parsed from the item element at index k standing alone in a feed.
ItemAlone(s, k) ==
  Parse(<<StartEv("feed", <<>>)>> \o SubSeq(s, k, MatchEnd(s, k)) \o <<EndEv>>).rss.items

IsAppend(old, new) ==
  \/ new = old
  \/ Len(new) = Len(old) + 1 /\ SubSeq(new, 1, Len(old)) = old

\* One step: the items of every RSS::from_xml call that stays active grow by at
\* most one appended Item, and the Feed parse returns has the items of the root
\* call: one per item/entry opening tag among the root's children, in order,
\* each the Item that element yields alone.
C6_Step ==
  /\ \A i \in 1..Len(stack) :
       (i <= Len(stack') /\ stack[i].fn = "RSS") =>
         IsAppend(stack[i].rss.items, stack'[i].rss.items)
  /\ result'.kind = "Ok" =>
       LET ks == ItemKidsOf(stream, DocRoot(stream))
       IN  /\ result'.rss.items = stack[2].rss.items
           /\ Len(result'.rss.items) = Len(ks)
           /\ \A j \in 1..Len(ks) : <<result'.rss.items[j]>> = ItemAlone(stream, ks[j])

\* C6: items changes only by append, and the returned Feed holds exactly one
\* Item per item/entry opening tag that is a child of the root, in document
\* order, equal items all kept.
C6_ItemsAppendOnly == [][C6_Step]_vars

\* A feed with two equal items and a third was parsed; all three are kept.
C6_Witness ==
  /\ Done
  /\ result.kind = "Ok"
  /\ Len(result.rss.items) = 3
  /\ result.rss.items[1] = result.rss.items[2]
  /\ result.rss.items[3] # result.rss.items[1]

(***************************************************************************)
(* C7                                                                      *)
(***************************************************************************)
\* The read about to be made fails to decode: read_event returns Err, or the
\* text read by Option::from_xml fails to unescape.
DecodeFailure ==
  LET e == read_event(stream, pos)
  IN  \/ e.type = "Err"
      \/ stack[Len(stack)].fn = "Option" /\ e.type = "Text" /\ ~e.ok

C7_Step ==
  /\ result.kind = "Running"
  /\ pos' = pos + 1
  /\ DecodeFailure => (result' = ErrResult("Xml") /\ stack' = <<>>)
  /\ result'.kind = "Ok" => read_event(stream, pos).type \in {"End", "Eof"}

\* C7: every step is one read made while parse has not returned; a read that
\* fails to decode, at any depth of the call stack, makes parse return the
\* decode failure (not EOF, not a Feed) in that step, after which nothing is
\* read.
C7_DecodeFailureFatal == [][C7_Step]_vars

\* The decode failure was returned from Option::from_xml called by
\* Item::from_xml called by RSS::from_xml, at the fourth read.
C7_Witness ==
  /\ result = ErrResult("Xml")
  /\ stack = <<>>
  /\ pos = 4
  /\ Len(stream) = 4
  /\ stream[1] = StartEv("channel", <<>>)
  /\ stream[2] = StartEv("item", <<>>)
  /\ stream[3] = StartEv("title", <<>>)
  /\ stream[4] = ErrEv

(***************************************************************************)
(* C8                                                                      *)
(***************************************************************************)
\* C8: parse returns Ok only on reading the closing tag of the root: the last
\* event read is an End event of the stream, never the Eof of a stream that
\* ends inside the root.
C8_OkOnlyAtRootEnd ==
  result.kind = "Ok" => (pos <= Len(stream) /\ stream[pos].type = "End")

(***************************************************************************)
(* C9                                                                      *)
(***************************************************************************)
\* The three prefix rules, for a link L and an origin O.
PrefixRules(L, O) ==
  IF Len(L) >= 2 /\ L[1] = "/" /\ L[2] = "/" THEN Http \o L
  ELSE IF Len(L) >= 1 /\ L[1] = "/" THEN O \o L
  ELSE L

\* C9: the normalized Feed link is O if L is empty or "/", else "http:" + L if L
\* starts with "//", else O + L if L starts with "/", else L; each present Item
\* link follows the three prefix rules, absent ones stay absent, and title, ids
\* and the number and order of items are unchanged; a Feed always comes out.
C9_NormalizationRules ==
  LET O == rss_host(rss_link)
      old == result.rss
      new == Unwrap(fixed)
  IN  IsSome(fixed) =>
        /\ new.link = (IF old.link = <<>> \/ old.link = <<"/">>
                       THEN O
                       ELSE PrefixRules(old.link, O))
        /\ new.title = old.title
        /\ Len(new.items) = Len(old.items)
        /\ \A i \in 1..Len(old.items) :
             /\ new.items[i].title = old.items[i].title
             /\ new.items[i].id = old.items[i].id
             /\ new.items[i].link =
                  (IF old.items[i].link = None
                   THEN None
                   ELSE Some(PrefixRules(Unwrap(old.items[i].link), O)))

\* A Feed whose link starts with "//", with one item whose link is "/" and one
\* without a link, was normalized against a URL with a scheme and a path.
C9_Witness ==
  /\ IsSome(fixed)
  /\ starts_with(result.rss.link, <<"/", "/", "a">>)
  /\ Len(result.rss.items) = 2
  /\ result.rss.items[1].link = Some(<<"/">>)
  /\ result.rss.items[2].link = None
  /\ rss_link = Http \o <<"/", "/", "a", "/">>
  /\ Unwrap(fixed).items[1].link = Some(Http \o <<"/", "/", "a", "/">>)

(***************************************************************************)
(* C10                                                                     *)
(***************************************************************************)
\* C10 (as stated): after normalization the Feed's link is never empty, for
\* every Feed and every source URL.
C10_AsStated == IsSome(fixed) => Unwrap(fixed).link # <<>>

\* C10 (amended): after normalization against a non-empty source URL the
\* Feed's link is never empty.
C10_LinkNotEmpty ==
  (IsSome(fixed) /\ rss_link # <<>>) => Unwrap(fixed).link # <<>>

\* A Feed with an empty link was normalized against a URL with a path, and its
\* link is now the origin.
C10_Witness ==
  /\ IsSome(fixed)
  /\ result.rss.link = <<>>
  /\ rss_link = <<"a", "/">>
  /\ Unwrap(fixed).link = <<"a">>

(***************************************************************************)
(* C11                                                                     *)
(***************************************************************************)
\* A string with a scheme: a colon after one or more characters that are
\* neither a slash nor a colon.
HasScheme(str) ==
  \E k \in 2..Len(str) :
    str[k] = ":" /\ \A j \in 1..(k - 1) : str[j] \notin {"/", ":"}

\* C11 (as stated): after normalization the Feed link has a scheme or equals
\* the host extracted from the source URL, and every present Item link has a
\* scheme.
C11_AsStated ==
  IsSome(fixed) =>
    /\ HasScheme(Unwrap(fixed).link) \/ Unwrap(fixed).link = rss_host(rss_link)
    /\ \A i \in 1..Len(Unwrap(fixed).items) :
         IsSome(Unwrap(fixed).items[i].link) =>
           HasScheme(Unwrap(Unwrap(fixed).items[i].link))

\* A link the prefix rules make absolute: one that starts with "//", one that
\* has a scheme already, or one that starts with "/" when the source URL has a
\* scheme.
MadeAbsolute(L, u) ==
  \/ starts_with(L, <<"/", "/">>)
  \/ HasScheme(L)
  \/ starts_with(L, <<"/">>) /\ HasScheme(u)

\* C11 (amended): after normalization the Feed link has a scheme or equals the
\* extracted host if the parsed link was empty, "/", or one the prefix rules
\* make absolute; a present Item link has a scheme if it was one the prefix
\* rules make absolute.
C11_AbsoluteWhereRulesApply ==
  IsSome(fixed) =>
    /\ (result.rss.link \in {<<>>, <<"/">>} \/ MadeAbsolute(result.rss.link, rss_link)) =>
         (HasScheme(Unwrap(fixed).link) \/ Unwrap(fixed).link = rss_host(rss_link))
    /\ \A i \in 1..Len(result.rss.items) :
         (/\ IsSome(result.rss.items[i].link)
          /\ MadeAbsolute(Unwrap(result.rss.items[i].link), rss_link)) =>
           HasScheme(Unwrap(Unwrap(fixed).items[i].link))

\* A Feed with link "/a" and an item with link "//a" was normalized against
\* "https://a/": both links now have a scheme.
C11_Witness ==
  /\ IsSome(fixed)
  /\ rss_link = <<"h", "t", "t", "p", "s", ":", "/", "/", "a", "/">>
  /\ result.rss.link = <<"/", "a">>
  /\ Len(result.rss.items) = 1
  /\ result.rss.items[1].link = Some(<<"/", "/", "a">>)
  /\ Unwrap(fixed).link = <<"h", "t", "t", "p", "s", ":", "/", "/", "a", "/", "a">>
  /\ Unwrap(fixed).items[1].link = Some(Http \o <<"/", "/", "a">>)

(***************************************************************************)
(* C12                                                                     *)
(***************************************************************************)
\* p is an optional http:// or https:// followed by a non-empty run of
\* characters other than "/", and is a prefix of u that a "/" or the end of u
\* follows.
IsOriginOf(p, u) ==
  /\ starts_with(u, p)
  /\ Len(p) = Len(u) \/ u[Len(p) + 1] = "/"
  /\ \E sc \in {<<>>, Http \o <<"/", "/">>, <<"h", "t", "t", "p", "s", ":", "/", "/">>} :
       /\ starts_with(p, sc)
       /\ Len(p) > Len(sc)
       /\ \A j \in (Len(sc) + 1)..Len(p) : p[j] # "/"

OriginLens(u) == {n \in 1..Len(u) : IsOriginOf(SubSeq(u, 1, n), u)}

Longest(S) == CHOOSE n \in S : \A m \in S : m <= n

\* C12: HOST matches the longest prefix of the source URL made of an optional
\* http:// or https:// and a maximal non-empty run of non-slash characters;
\* it matches nothing exactly when the URL is empty or starts with "/", and
\* then the literal URL is the origin the normalizer uses.
C12_HostExtraction ==
  LET u == rss_link
      origin == IF OriginLens(u) = {} THEN u ELSE SubSeq(u, 1, Longest(OriginLens(u)))
  IN  /\ (OriginLens(u) = {}) <=> (u = <<>> \/ u[1] = "/")
      /\ (HOST_captures(u) = None) <=> (OriginLens(u) = {})
      /\ IsSome(HOST_captures(u)) => Unwrap(HOST_captures(u)) = origin
      /\ (IsSome(fixed) /\ result.rss.link = <<>>) => Unwrap(fixed).link = origin

\* A Feed without a link was normalized against "http://a/": its link is now
\* "http://a".
C12_Witness ==
  /\ IsSome(fixed)
  /\ result.rss.link = <<>>
  /\ rss_link = Http \o <<"/", "/", "a", "/">>
  /\ Unwrap(fixed).link = Http \o <<"/", "/", "a">>

(***************************************************************************)
(* C20                                                                     *)
(***************************************************************************)
SameLinks(f, g) ==
  /\ f.link = g.link
  /\ Len(f.items) = Len(g.items)
  /\ \A i \in 1..Len(f.items) : f.items[i].link = g.items[i].link

\* C20 (as stated): normalizing the normalized Feed again with the same source
\* URL changes no link, for every Feed and every source URL.
C20_AsStated ==
  IsSome(fixed) => SameLinks(fix_relative_url(Unwrap(fixed), rss_link), Unwrap(fixed))

\* C20 (amended): the same, for every source URL that does not start with "/".
C20_Idempotent ==
  (IsSome(fixed) /\ ~starts_with(rss_link, <<"/">>)) =>
    SameLinks(fix_relative_url(Unwrap(fixed), rss_link), Unwrap(fixed))

\* A Feed with link "/a" and an item with link "//a" was normalized against
\* the scheme-less URL "a/", which changed both links.
C20_Witness ==
  /\ IsSome(fixed)
  /\ rss_link = <<"a", "/">>
  /\ result.rss.link = <<"/", "a">>
  /\ Unwrap(fixed).link = <<"a", "/", "a">>
  /\ Len(result.rss.items) = 1
  /\ result.rss.items[1].link = Some(<<"/", "/", "a">>)

(***************************************************************************)
(* C17                                                                     *)
(***************************************************************************)
\* The element whose closing tag is at index e, standing alone as a document.
SubtreeEndingAt(s, e) ==
  LET k == CHOOSE k \in 1..e : s[k].type = "Start" /\ MatchEnd(s, k) = e
  IN  SubSeq(s, k, e)

\* The step in which the RSS::from_xml call made for a nested channel returns
\* at the channel's closing tag.
NestedChannelReturns ==
  /\ Len(stack) >= 3
  /\ Top(Now).fn = "RSS"
  /\ Top(Now).ctx = "channel"
  /\ Len(stack') = Len(stack) - 1
  /\ stream[pos'].type = "End"

\* One step: when the call for a nested channel returns, the Feed it built is
\* the Feed of the channel subtree parsed alone, the caller's title and link
\* become that Feed's, and the caller's items stay as they were; the Feed
\* parse returns has one item per item/entry child of the root.
C17_Step ==
  /\ NestedChannelReturns =>
       LET f == Top(Now)
           g == stack[Len(stack) - 1]
           h == stack'[Len(stack')]
       IN  /\ f.rss = Parse(SubtreeEndingAt(stream, pos')).rss
           /\ h.rss.title = f.rss.title
           /\ h.rss.link = f.rss.link
           /\ h.rss.items = g.rss.items
  /\ result'.kind = "Ok" =>
       LET ks == ItemKidsOf(stream, DocRoot(stream))
       IN  /\ Len(result'.rss.items) = Len(ks)
           /\ \A j \in 1..Len(ks) : <<result'.rss.items[j]>> = ItemAlone(stream, ks[j])

\* C17: a nested channel is parsed as a full Feed of which only title and link
\* are adopted; the outer items are left unchanged, so items inside the nested
\* channel are not in the result while its sibling items are.
C17_NestedChannelAdoption == [][C17_Step]_vars

\* A feed with an item, then a nested channel holding an item, then a titled
\* item was parsed: the result has the two sibling items and the (empty) title
\* of the nested channel.
C17_Witness ==
  /\ Done
  /\ result.kind = "Ok"
  /\ LET r == DocRoot(stream)
         ch == StartKids(stream, r, {"channel"})
     IN  /\ Len(ch) = 1
         /\ Len(ItemKidsOf(stream, ch[1])) = 1
         /\ Len(ItemKidsOf(stream, r)) = 2
  /\ Len(result.rss.items) = 2
  /\ result.rss.items[2].title = Some(TA)
  /\ result.rss.title = <<>>

(***************************************************************************)
(* Mixed content: elements whose body is any sequence of text, CDATA,      *)
(* self-closing tags, comments and nested elements, closed or cut off at   *)
(* the end of the body.                                                    *)
(***************************************************************************)
MaxNodes == 3

Nodes ==
  { <<TextEv(TA)>>, <<CDataEv(TC)>>, <<EmptyEv("br", <<>>)>>, <<OtherEv>>,
    Elem("b", <<>>, <<TextEv(TB)>>),
    Elem("title", <<>>, Elem("i", <<>>, <<CDataEv(TA)>>) \o <<TextEv(TB), EmptyEv("br", <<>>)>>) }

MixedBodies == Cat(Nodes, MaxNodes)

Holders ==
  { <<StartEv("channel", <<>>), StartEv("title", <<>>)>>,
    <<StartEv("feed", <<>>), StartEv("link", <<>>)>>,
    <<StartEv("channel", <<>>), StartEv("foo", <<>>)>>,
    <<StartEv("feed", <<>>), StartEv("entry", <<>>), StartEv("id", <<>>)>> }

Closing(h) == [i \in 1..Len(h) |-> EndEv]

TextStreams ==
  {h \o b \o Closing(h) : h \in Holders, b \in MixedBodies}
    \cup {h \o b : h \in Holders, b \in MixedBodies}

InitText == stream \in TextStreams /\ InitCall

SpecText == InitText /\ [][NextParse]_vars

\* The configuration from which the next iteration leaves the call at stack
\* level n (by returning or failing), reached from c.
RECURSIVE LastInside(_, _, _)
LastInside(s, c, n) ==
  IF Len(Step(s, c).stack) < n THEN c ELSE LastInside(s, Step(s, c), n)

\* This step calls f: it pushes a frame of f.
Calls(f) == Len(stack') = Len(stack) + 1 /\ stack'[Len(stack')].fn = f

(***************************************************************************)
(* C14                                                                     *)
(***************************************************************************)
\* One step: when skip_element is called just after the opening tag at index
\* pos' of an error-free stream that holds the matching closing tag, the call
\* returns on reading exactly that closing tag, to a caller left as it was;
\* and each iteration of skip_element reads one event.
C14_Step ==
  /\ (Calls("skip") /\ ErrorFree(stream) /\ MatchEnd(stream, pos') <= Len(stream)) =>
       LET c == LastInside(stream, Cfg(pos', stack', result'), Len(stack'))
           r == Step(stream, c)
       IN  /\ Len(c.stack) = Len(stack')
           /\ r.pos = MatchEnd(stream, pos')
           /\ read_event(stream, c.pos).type = "End"
           /\ r.stack = stack
           /\ r.result = Running
  /\ Active("skip") => pos' = pos + 1

\* C14: skip_element consumes events up to and including exactly the closing
\* tag matching the opening tag it was called after, whatever is nested, and
\* leaves the stream at the event after it.
C14_SkipSynchronized == [][C14_Step]_vars

\* An unknown element holding a closed child element, a self-closing tag and
\* text is being skipped: the skipper has returned from the nested child and
\* is back at the level of the unknown element, before its closing tag.
C14_Witness ==
  /\ Active("skip")
  /\ Len(stack) = 3
  /\ stream[2].name = "foo"
  /\ MatchEnd(stream, 2) = Len(stream) - 1
  /\ pos < MatchEnd(stream, 2) - 1
  /\ pos > 3
  /\ stream[3].type = "Start"
  /\ MatchEnd(stream, 3) <= pos
  /\ \E k \in 3..Len(stream) : stream[k].type = "Empty"

(***************************************************************************)
(* C15                                                                     *)
(***************************************************************************)
\* One step: when Option::from_xml is called just after the opening tag at
\* index pos' of an error-free stream, the call returns on reading the
\* matching closing tag (or the end of the stream, if the stream ends first),
\* and the value it returns is the last text or CDATA among the direct
\* children of that element, none if there is no such child.
C15_Step ==
  (Calls("Option") /\ ErrorFree(stream)) =>
    LET c == LastInside(stream, Cfg(pos', stack', result'), Len(stack'))
        r == Step(stream, c)
    IN  /\ Len(c.stack) = Len(stack')
        /\ Top(c).fn = "Option"
        /\ Top(c).content = TextOf(stream, pos')
        /\ r.pos = MatchEnd(stream, pos')
        /\ read_event(stream, c.pos).type \in {"End", "Eof"}
        /\ r.result = Running
        /\ Len(r.stack) = Len(stack)

\* C15: the extractor returns the last direct text or CDATA fragment of the
\* element (never text of a nested child, never a concatenation), none when
\* there is no such fragment before the closing tag or the end of the stream,
\* and leaves the stream just after the matching closing tag.
C15_LastDirectText == [][C15_Step]_vars

\* A title holding text "a", then a child element with text "b", then CDATA
\* "c" was parsed: the Feed title is "c".
C15_Witness ==
  /\ Done
  /\ result.kind = "Ok"
  /\ Len(stream) = 9
  /\ stream[2].name = "title"
  /\ stream[3] = TextEv(TA)
  /\ stream[4].type = "Start"
  /\ stream[5] = TextEv(TB)
  /\ stream[7] = CDataEv(TC)
  /\ result.rss.title = TC

(***************************************************************************)
(* Link elements with any attribute list: at most MaxAttrs attributes, no  *)
(* key twice, any of them failing to decode.                               *)
(***************************************************************************)
MaxAttrs == 3

AttrPool ==
  { Attr("href", H1), Attr("href", H2), BadEscAttr("href"),
    Attr("rel", Alternate), Attr("rel", RelSelf), Attr("type", TA), ErrAttr }

AttrSeqs ==
  {q \in UNION {[1..n -> AttrPool] : n \in 0..MaxAttrs} :
     \A i, j \in 1..Len(q) : (i # j /\ q[i].res = "Ok" /\ q[j].res = "Ok") => q[i].key # q[j].key}

AttrStreams ==
  UNION { { Elem("feed", <<>>, <<EmptyEv("link", q)>>),
            Elem("channel", <<>>, Elem("foo", <<>>, <<>>) \o Elem("link", q, <<>>)),
            Elem("feed", <<>>, Elem("entry", <<>>, <<EmptyEv("link", q)>>)),
            Elem("channel", <<>>, Elem("item", <<>>, Elem("link", q, <<>>))) } : q \in AttrSeqs }

InitAttr == stream \in AttrStreams /\ InitCall

SpecAttr == InitAttr /\ [][NextParse]_vars

\* The attribute fails to decode: the iterator yields an error for it, or it
\* is an href whose value fails to unescape.
Fails(a) == a.res = "Err" \/ (a.key = "href" /\ ~a.esc)

Decodes(a) == ~Fails(a)

Clean(attrs) == SelectSeq(attrs, Decodes)

RemoveAt(q, i) == SubSeq(q, 1, i - 1) \o SubSeq(q, i + 1, Len(q))

Perms(q) ==
  {[i \in 1..Len(q) |-> q[f[i]]] :
     f \in {g \in [1..Len(q) -> 1..Len(q)] : \A i, j \in 1..Len(q) : g[i] = g[j] => i = j}}

\* The index of the link element of the document, and the link parsed from it.
LinkIdx(s) == CHOOSE k \in 1..Len(s) : s[k].name = "link"

ParsedLink ==
  IF result.rss.items = <<>>
  THEN IF result.rss.link = <<>> THEN None ELSE Some(result.rss.link)
  ELSE result.rss.items[1].link

(***************************************************************************)
(* C16                                                                     *)
(***************************************************************************)
\* C16: the link a link element sets is the value of its href if it has an
\* href (one that decodes) and its rel is absent or "alternate", and nothing
\* otherwise; parse_atom_link gives the same for every ordering of the
\* attributes.
C16_AtomLinkResolver ==
  Done =>
    LET attrs == stream[LinkIdx(stream)].attrs
    IN  /\ result.kind = "Ok"
        /\ ParsedLink = AltHref(Clean(attrs))
        /\ \A q \in Perms(attrs) : parse_atom_link(q) = parse_atom_link(attrs)

\* An entry whose link has rel="alternate" after its href was parsed (link is
\* the href), or one whose link has rel="self" before its href (no link).
C16_Witness ==
  /\ Done
  /\ result.kind = "Ok"
  /\ Len(result.rss.items) = 1
  /\ LET attrs == stream[LinkIdx(stream)].attrs
     IN  \/ attrs = <<Attr("href", H1), Attr("rel", Alternate)>> /\ ParsedLink = Some(H1)
         \/ attrs = <<Attr("rel", RelSelf), Attr("href", H1)>> /\ ParsedLink = None

(***************************************************************************)
(* C18                                                                     *)
(***************************************************************************)
\* The document with every failing attribute removed.
CleanStream(s) == [k \in 1..Len(s) |-> [s[k] EXCEPT !.attrs = Clean(@)]]

\* C18: a link attribute that fails to decode counts as absent: parse_atom_link
\* returns what it returns with that attribute removed, and parse returns the
\* Feed of the document without the failing attributes, never a failure.
C18_AttrFailuresAbsorbed ==
  Done =>
    LET attrs == stream[LinkIdx(stream)].attrs
    IN  /\ result.kind = "Ok"
        /\ result = Parse(CleanStream(stream))
        /\ \A i \in 1..Len(attrs) :
             Fails(attrs[i]) => parse_atom_link(attrs) = parse_atom_link(RemoveAt(attrs, i))

\* A feed whose link has an attribute the iterator fails on, then an href, was
\* parsed: the link is the href.  Or its href fails to unescape: no link, no
\* failure.
C18_Witness ==
  /\ Done
  /\ result.kind = "Ok"
  /\ result.rss.items = <<>>
  /\ LET attrs == stream[LinkIdx(stream)].attrs
     IN  \/ attrs = <<ErrAttr, Attr("href", H2)>> /\ result.rss.link = H2
         \/ attrs = <<Attr("rel", Alternate), BadEscAttr("href")>> /\ result.rss.link = <<>>

(***************************************************************************)
(* C19                                                                     *)
(***************************************************************************)
\* One step of a run that has read pos events: the loop on top of the stack
\* reads exactly one event; at most one call is open per opening tag read,
\* besides parse itself; a loop that reads Eof, an error or a closing tag
\* other than parse's own ends its call, so once the end of the stream is
\* reached every read closes at least one call; and parse has returned
\* exactly when no call is left.
C19_Step ==
  LET e == read_event(stream, pos)
  IN  /\ (result.kind = "Running") <=> (stack # <<>>)
      /\ Len(stack) <= pos + 1
      /\ Len(stack) <= Len(stream) + 1
      /\ pos' = pos + 1
      /\ e.type \in {"Eof", "Err"} => Len(stack') < Len(stack)
      /\ (e.type = "End" /\ Len(stack) > 1) => Len(stack') < Len(stack)
      /\ pos >= Len(stream) => e.type = "Eof"
      /\ pos' <= 2 * Len(stream) + 1

\* C19: parse terminates on every finite stream: every iteration of every
\* loop consumes one event, and from the end of the stream on every read ends
\* a call, so a run makes at most 2 * Len(stream) + 1 reads before parse
\* returns a Feed or a failure.
C19_Terminates == [][C19_Step]_vars

\* The stream ended inside an unknown element nested in another: the inner
\* skip, the outer skip and then parse each read Eof, and parse failed.
C19_Witness ==
  /\ Done
  /\ result = ErrResult("EOF")
  /\ Len(stream) = 2
  /\ pos = Len(stream) + 3

(***************************************************************************)
(* C13                                                                     *)
(***************************************************************************)
\* parse was called: it has returned a result for some input.
ParserInvoked == result.kind # "Running" \/ stream # <<>> \/ pos # 0

\* C13: the parser is invoked only once the transfer is over, with the whole
\* body in the buffer, and only on response code 200; any other code gives
\* the HTTP failure carrying that code, and a transport failure gives a
\* failure, both with the parser and the normalizer not invoked; a Feed
\* returned is the normalized parse of the complete body.
C13_FetchOrdering ==
  /\ ParserInvoked =>
       /\ req.state = "done"
       /\ req.sent = Len(req.body)
       /\ req.code = HttpOk
       /\ buf = req.body
       /\ stream = req.body
       /\ result = Parse(req.body)
  /\ (req.state = "done" /\ req.code # HttpOk /\ fetched # Pending) =>
       /\ fetched = HttpErr(req.code)
       /\ ~ParserInvoked
       /\ fixed = None
  /\ fetched.kind = "Http" => req.code # HttpOk
  /\ req.state = "failed" =>
       /\ fetched = TransportErr
       /\ ~ParserInvoked
       /\ fixed = None
  /\ fetched.kind = "Transport" => req.state = "failed"
  /\ fetched.kind = "Ok" =>
       /\ Parse(req.body).kind = "Ok"
       /\ fetched.rss = fix_relative_url(Parse(req.body).rss, rss_link)
       /\ fixed = Some(fetched.rss)
  /\ fixed # None => fetched.kind = "Ok"

\* A body written in more than one chunk was answered with code 200, parsed
\* and normalized: the item link "/h" became "https://a/h".
C13_Witness ==
  /\ fetched.kind = "Ok"
  /\ req.code = HttpOk
  /\ Len(req.body) > MaxChunk
  /\ Len(fetched.rss.items) = 1
  /\ result.rss.items[1].link = Some(H1)
  /\ fetched.rss.items[1].link = Some(<<"h", "t", "t", "p", "s", ":", "/", "/", "a">> \o H1)

====
